---- MODULE Spec2Model ----
(***************************************************************************)
(* skll.data.featureset.FeatureSet: construction, merge (__add__),         *)
(* in-place filter, filtered_iter and subtraction (__sub__).               *)
(*                                                                         *)
(* Values.  An attribute that may be None is a record with a `none` flag.  *)
(* ids and classes are 1-D arrays (sequences); ids hold integers, classes  *)
(* hold "None" (unset), "x" or "y".  features is a scipy CSR matrix (the   *)
(* type sp.hstack(..., 'csr') builds at lines 99-100): nrows, ncols and    *)
(* the sequence of its rows.  A vectorizer is its kind ("None", "Dict",    *)
(* "Hasher"), vocabulary_ (the dict's (name, index) items, indices from 0) *)
(* and feature_names_.  An operation returns a record whose `exc` is ""    *)
(* on a normal return and the exception otherwise; the four `raise`        *)
(* statements of __add__ are named by the error they report.               *)
(*                                                                         *)
(* numpy/scipy are modelled with the behaviour of current releases: a      *)
(* boolean index must have the length of the indexed axis, comparison      *)
(* with None is element-wise, shapes broadcast when one of them is 1.      *)
(***************************************************************************)
EXTENDS Integers, Sequences, FiniteSets, TLC

\* ---------------------------------------------------------------- bounds
MaxRows == 2
MaxCols == 3
MaxOps == 2

Names == {"f1", "f2", "f3"}

NameNum(name) ==
  CASE name = "f1" -> 1 [] name = "f2" -> 2 [] name = "f3" -> 3 [] OTHER -> 9

Range(s) == {s[i] : i \in 1..Len(s)}

Min2(x, y) == IF x <= y THEN x ELSE y

\* --------------------------------------------------------- python values
NoneArr == [none |-> TRUE, v |-> <<>>]
Arr(s) == [none |-> FALSE, v |-> s]

NoneMat == [none |-> TRUE, nrows |-> 0, ncols |-> 0, rows |-> <<>>]
Mat(n, m, r) == [none |-> FALSE, nrows |-> n, ncols |-> m, rows |-> r]

NoneVec == [kind |-> "None", vocabulary_ |-> {}, feature_names_ |-> <<>>]

NoExc == ""
Ok(x) == [exc |-> NoExc, v |-> x]
Err(e) == [exc |-> e, v |-> <<>>]

\* An element of a `features` argument that is a matrix row, not a name.
RowObj == "<row>"

\* ------------------------------------------------------ numpy and scipy
\* arr.shape[1] of a 1-D array: the shape tuple has one entry.
Shape1Of1D(arr) == Err("IndexError")

\* np.empty(n) followed by fill(fill).
EmptyFilled(n, fill) == Arr([i \in 1..n |-> fill])

logical_not(m) == [i \in 1..Len(m) |-> ~m[i]]

\* np.logical_and with broadcasting of a length-1 operand.
logical_and(x, y) ==
  IF Len(x) = Len(y) THEN Ok([i \in 1..Len(x) |-> x[i] /\ y[i]])
  ELSE IF Len(x) = 1 THEN Ok([i \in 1..Len(y) |-> x[1] /\ y[i]])
  ELSE IF Len(y) = 1 THEN Ok([i \in 1..Len(x) |-> x[i] /\ y[1]])
  ELSE Err("ValueError")

\* np.in1d(arr, vals); np.asarray(None).ravel() is the one-element array [None].
in1d(arr, vals) ==
  IF arr.none THEN <<FALSE>>
  ELSE [i \in 1..Len(arr.v) |-> arr.v[i] \in Range(vals)]

RECURSIVE Compress(_, _)
Compress(s, mask) ==
  IF s = <<>> THEN <<>>
  ELSE (IF Head(mask) THEN <<Head(s)>> ELSE <<>>) \o Compress(Tail(s), Tail(mask))

\* arr[mask] for a boolean mask.
TakeMask(arr, mask) ==
  IF arr.none THEN Err("TypeError")
  ELSE IF Len(mask) # Len(arr.v) THEN Err("IndexError")
  ELSE Ok(Arr(Compress(arr.v, mask)))

\* features[mask, :]
TakeRows(mat, mask) ==
  IF mat.none THEN Err("TypeError")
  ELSE IF Len(mask) # mat.nrows THEN Err("IndexError")
  ELSE LET r == Compress(mat.rows, mask) IN Ok(Mat(Len(r), mat.ncols, r))

\* ~columns on an integer array: bitwise NOT.
Invert(cols) == [i \in 1..Len(cols) |-> -cols[i] - 1]

IndexInRange(c, n) == -n <= c /\ c < n
Pos(c, n) == IF c < 0 THEN n + c + 1 ELSE c + 1

\* features[:, cols] for an integer index array (negative indices count
\* from the end).
TakeCols(mat, cols) ==
  IF \E i \in 1..Len(cols) : ~IndexInRange(cols[i], mat.ncols) THEN Err("IndexError")
  ELSE Ok(Mat(mat.nrows, Len(cols),
              [r \in 1..mat.nrows |->
                 [j \in 1..Len(cols) |-> mat.rows[r][Pos(cols[j], mat.ncols)]]]))

\* sp.hstack([A, B], 'csr')
hstack(A, B) ==
  IF A.none \/ B.none THEN Err("ValueError")
  ELSE IF A.nrows # B.nrows THEN Err("ValueError")
  ELSE Ok(Mat(A.nrows, A.ncols + B.ncols,
              [r \in 1..A.nrows |-> A.rows[r] \o B.rows[r]]))

\* np.all(x == y) for two attributes that are arrays or None.
AllEqual(x, y) ==
  IF x.none /\ y.none THEN TRUE
  ELSE IF x.none THEN Len(y.v) = 0
  ELSE IF y.none THEN Len(x.v) = 0
  ELSE IF Len(x.v) = Len(y.v) THEN \A i \in 1..Len(x.v) : x.v[i] = y.v[i]
  ELSE IF Len(x.v) = 1 THEN \A i \in 1..Len(y.v) : x.v[1] = y.v[i]
  ELSE IF Len(y.v) = 1 THEN \A i \in 1..Len(x.v) : x.v[i] = y.v[1]
  ELSE FALSE

RECURSIVE Insert(_, _)
Insert(x, s) ==
  IF s = <<>> THEN <<x>>
  ELSE IF x <= Head(s) THEN <<x>> \o s
  ELSE <<Head(s)>> \o Insert(x, Tail(s))

RECURSIVE sorted(_)
sorted(s) == IF s = <<>> THEN <<>> ELSE Insert(Head(s), sorted(Tail(s)))

\* ------------------------------------------------------------ vectorizer
\* name in feat_vectorizer / feat_vectorizer[name]: the forward lookup of
\* the Dictionary variant, through vocabulary_.
VecContains(vec, name) == \E p \in vec.vocabulary_ : p[1] = name
VecLookup(vec, name) == (CHOOSE p \in vec.vocabulary_ : p[1] = name)[2]

\* vocabulary_.items() sorted by index: the names in index order.
RECURSIVE VocabByIndex(_)
VocabByIndex(vocab) ==
  IF vocab = {} THEN <<>>
  ELSE LET p == CHOOSE q \in vocab : \A o \in vocab : q[2] <= o[2]
       IN <<p>> \o VocabByIndex(vocab \ {p})

\* ------------------------------------------------------------ FeatureSet
FS(ids, classes, features, feat_vectorizer) ==
  [ids |-> ids, classes |-> classes, features |-> features,
   feat_vectorizer |-> feat_vectorizer]

Raise(e, self) == [exc |-> e, self |-> self]
Return(self) == [exc |-> NoExc, self |-> self]

\* __init__: the checks read shape[1] of the matrix (its column count) and
\* shape[1] of the 1-D arrays ids and classes.
FeatureSet_init(ids, classes, features, feat_vectorizer) ==
  LET self0 == FS(ids, classes, features, feat_vectorizer) IN
  IF features.none THEN Return(self0)
  ELSE
    LET num_feats == features.ncols
        self1 == [self0 EXCEPT
                    !.ids = IF ids.none THEN EmptyFilled(num_feats, 0) ELSE ids,
                    !.classes = IF classes.none
                                THEN EmptyFilled(num_feats, "None") ELSE classes]
        num_ids == Shape1Of1D(self1.ids)
        num_classes == Shape1Of1D(self1.classes)
    IN IF num_ids.exc # NoExc THEN Raise(num_ids.exc, self1)
       ELSE IF num_classes.exc # NoExc THEN Raise(num_classes.exc, self1)
       ELSE IF num_feats # num_ids.v THEN Raise("ShapeMismatch", self1)
       \* '...({})...' % (a, b): not all arguments converted
       ELSE IF num_feats # num_classes.v THEN Raise("TypeError", self1)
       ELSE Return(self1)

\* FeatureSet(): every attribute None.
Placeholder == FeatureSet_init(NoneArr, NoneArr, NoneMat, NoneVec).self

\* __len__
FeatureSet_len(self) ==
  IF self.features.none THEN Err("AttributeError") ELSE Ok(self.features.ncols)

\* __iter__: zip(ids, classes, features) as a sequence of triples.
FeatureSet_iter(self) ==
  IF self.features.none THEN Ok(<<>>)
  ELSE IF self.ids.none \/ self.classes.none THEN Err("TypeError")
  ELSE Ok([i \in 1..Min2(Min2(Len(self.ids.v), Len(self.classes.v)), self.features.nrows)
             |-> <<self.ids.v[i], self.classes.v[i], self.features.rows[i]>>])

\* get_feature_names() of a DictVectorizer.
FeatureNames(vec) == Range(vec.feature_names_)

\* Lines 104-109: every (name, index) of the copied vocabulary is moved to
\* index + num_feats and its name appended to feature_names_.
ShiftVocabulary(vec, num_feats) ==
  LET vocab == VocabByIndex(vec.vocabulary_) IN
  [vec EXCEPT
     !.vocabulary_ = {<<p[1], p[2] + num_feats>> : p \in vec.vocabulary_},
     !.feature_names_ = vec.feature_names_ \o [i \in 1..Len(vocab) |-> vocab[i][1]]]

\* The check of line 115 reduced to the number of ids.
IdsSameLength(self, other) ==
  /\ self.ids.none = other.ids.none
  /\ Len(self.ids.v) = Len(other.ids.v)

\* Line 115.
IdsAligned(self, other) == AllEqual(self.ids, other.ids)

\* Line 120: any(x is not None for x in other.classes)
AnyLabel(classes) == \E i \in 1..Len(classes.v) : classes.v[i] # "None"

\* Lines 85-112: features and vectorizer of new_set.
AddFeatures(self, other, new_set) ==
  IF ~self.features.none THEN
    IF self.feat_vectorizer.kind # other.feat_vectorizer.kind
    THEN Raise("IncompatibleVectorizer", new_set)
    ELSE
      LET feature_hasher == self.feat_vectorizer.kind = "Hasher" IN
      IF ~feature_hasher /\ self.feat_vectorizer.kind = "None"
      THEN Raise("AttributeError", new_set)
      ELSE IF ~feature_hasher /\
              FeatureNames(self.feat_vectorizer) \cap FeatureNames(other.feat_vectorizer) # {}
      THEN Raise("DuplicateFeatureName", new_set)
      ELSE
        LET num_feats == self.features.ncols
            stacked == hstack(self.features, other.features)
        IN IF stacked.exc # NoExc THEN Raise(stacked.exc, new_set)
           ELSE Return([new_set EXCEPT
                  !.features = stacked.v,
                  !.feat_vectorizer =
                     IF feature_hasher THEN self.feat_vectorizer
                     ELSE ShiftVocabulary(self.feat_vectorizer, num_feats)])
  ELSE Return([new_set EXCEPT !.features = other.features,
                              !.feat_vectorizer = other.feat_vectorizer])

\* Lines 119-127: the labels of new_set.
AddLabels(self, other, new_set) ==
  IF other.classes.none THEN Raise("TypeError", new_set)
  ELSE IF AnyLabel(other.classes) THEN
    IF self.classes.none THEN Return([new_set EXCEPT !.classes = other.classes])
    ELSE IF ~AllEqual(self.classes, other.classes)
    THEN Raise("ConflictingLabels", new_set)
    ELSE Return(new_set)
  ELSE Return(new_set)

\* __add__: [exc, ret, self, other]; self and other are the operands as
\* the call leaves them (the code reads them and writes only to new_set and
\* to deep copies).
FeatureSet_add(self, other) ==
  LET new_set == Placeholder
      f == AddFeatures(self, other, new_set)
  IN IF f.exc # NoExc
     THEN [exc |-> f.exc, ret |-> Placeholder, self |-> self, other |-> other]
     ELSE IF ~IdsAligned(self, other)
     THEN [exc |-> "MisalignedIds", ret |-> Placeholder, self |-> self, other |-> other]
     ELSE LET l == AddLabels(self, other, f.self)
          IN [exc |-> l.exc,
              ret |-> IF l.exc = NoExc THEN l.self ELSE Placeholder,
              self |-> self, other |-> other]

\* An optional list argument of filter and filtered_iter.
NoneList == [none |-> TRUE, v |-> <<>>]
List(s) == [none |-> FALSE, v |-> s]

\* Lines 165-167 and 193-195: the sorted column indices of the names the
\* vectorizer knows.  Nothing is looked up for an empty list; a vectorizer
\* that is None or a FeatureHasher, or an element that is a matrix row
\* (unhashable), raises TypeError at the first lookup.
Columns(vec, features) ==
  IF features.v = <<>> THEN Ok(<<>>)
  ELSE IF vec.kind # "Dict" THEN Err("TypeError")
  ELSE IF RowObj \in Range(features.v) THEN Err("TypeError")
  ELSE LET known == SelectSeq(features.v, LAMBDA name : VecContains(vec, name))
       IN Ok(sorted([i \in 1..Len(known) |-> VecLookup(vec, known[i])]))

\* Lines 149-156: the row mask.
RowMask(self, n, ids, classes, inverse) ==
  LET m0 == Ok([i \in 1..n |-> TRUE])
      m1 == IF ids.none THEN m0
            ELSE logical_and(m0.v, logical_not(in1d(self.ids, ids.v)))
  IN IF m1.exc # NoExc THEN m1
     ELSE LET m2 == IF classes.none THEN m1
                    ELSE logical_and(m1.v, logical_not(in1d(self.classes, classes.v)))
          IN IF m2.exc # NoExc THEN m2
             ELSE IF inverse THEN Ok(logical_not(m2.v)) ELSE m2

\* Lines 164-171: the column filter.  np.array([]) has dtype float64: ~ of
\* it raises TypeError; as an index scipy accepts it (empty selection) or
\* rejects it, depending on the release (emptyIndexOk).
FilterColumns(self, features, inverse, emptyIndexOk) ==
  IF features.none THEN Return(self)
  ELSE
    LET columns == Columns(self.feat_vectorizer, features) IN
    IF columns.exc # NoExc THEN Raise(columns.exc, self)
    ELSE IF columns.v = <<>> THEN
      IF inverse THEN Raise("TypeError", self)
      ELSE IF emptyIndexOk
      THEN Return([self EXCEPT !.features = TakeCols(self.features, <<>>).v])
      ELSE Raise("IndexError", self)
    ELSE
      LET cut == TakeCols(self.features,
                          IF inverse THEN Invert(columns.v) ELSE columns.v)
      IN IF cut.exc # NoExc THEN Raise(cut.exc, self)
         ELSE Return([self EXCEPT !.features = cut.v])

\* filter: [exc, self], self being the receiver as the call leaves it (the
\* assignments made before an exception stay).
FeatureSet_filter(self, ids, classes, features, inverse, emptyIndexOk) ==
  LET n == FeatureSet_len(self) IN
  IF n.exc # NoExc THEN Raise(n.exc, self)
  ELSE
    LET mask == RowMask(self, n.v, ids, classes, inverse) IN
    IF mask.exc # NoExc THEN Raise(mask.exc, self)
    ELSE
      LET i == TakeMask(self.ids, mask.v) IN
      IF i.exc # NoExc THEN Raise(i.exc, self)
      ELSE
        LET s1 == [self EXCEPT !.ids = i.v]
            c == TakeMask(s1.classes, mask.v)
        IN IF c.exc # NoExc THEN Raise(c.exc, s1)
           ELSE
             LET s2 == [s1 EXCEPT !.classes = c.v]
                 f == TakeRows(s2.features, mask.v)
             IN IF f.exc # NoExc THEN Raise(f.exc, s2)
                ELSE FilterColumns([s2 EXCEPT !.features = f.v],
                                   features, inverse, emptyIndexOk)

\* ex_feats[idx]: ex_feats is one row of the CSR matrix, a 1 x M matrix, and
\* an integer array indexes its rows: every index must be 0 or -1, and the
\* result holds the row once per index.
RECURSIVE Repeat(_, _)
Repeat(row, k) == IF k = 0 THEN <<>> ELSE row \o Repeat(row, k - 1)

RowIndex(row, idx) ==
  IF \E i \in 1..Len(idx) : ~IndexInRange(idx[i], 1) THEN Err("IndexError")
  ELSE Ok(Repeat(row, Len(idx)))

\* Lines 205-214: the feature part of one yielded triple.
YieldFeats(ex_feats, features, columns, inverse, emptyIndexOk) ==
  IF ~features.none THEN
    IF inverse THEN
      IF columns = <<>>
      THEN (IF emptyIndexOk THEN Ok(<<>>) ELSE Err("IndexError"))
      ELSE RowIndex(ex_feats, columns)
    ELSE
      IF columns = <<>> THEN Err("TypeError")
      ELSE RowIndex(ex_feats, Invert(columns))
  ELSE IF inverse THEN Ok(ex_feats) ELSE Ok(<<>>)

\* Lines 197-214: the loop from example i on; `out` holds the triples
\* yielded so far.
RECURSIVE IterFrom(_, _, _, _, _, _, _, _, _)
IterFrom(zipped, i, ids, classes, features, columns, inverse, emptyIndexOk, out) ==
  IF i > Len(zipped) THEN [exc |-> NoExc, out |-> out]
  ELSE
    LET ex_id == zipped[i][1]
        ex_class == zipped[i][2]
        ex_feats == zipped[i][3]
    IN IF ~ids.none /\ ((ex_id \in Range(ids.v)) = inverse)
       THEN IterFrom(zipped, i + 1, ids, classes, features, columns, inverse,
                     emptyIndexOk, out)
       ELSE IF ~classes.none /\ ((ex_class \in Range(classes.v)) = inverse)
       THEN IterFrom(zipped, i + 1, ids, classes, features, columns, inverse,
                     emptyIndexOk, out)
       ELSE LET y == YieldFeats(ex_feats, features, columns, inverse, emptyIndexOk)
            IN IF y.exc # NoExc THEN [exc |-> y.exc, out |-> out]
               ELSE IterFrom(zipped, i + 1, ids, classes, features, columns,
                             inverse, emptyIndexOk,
                             Append(out, <<ex_id, ex_class, y.v>>))

\* filtered_iter, run to its end: [exc, out, self].
FeatureSet_filtered_iter(self, ids, classes, features, inverse, emptyIndexOk) ==
  LET columns == IF features.none THEN Ok(<<>>)
                 ELSE Columns(self.feat_vectorizer, features)
  IN IF columns.exc # NoExc THEN [exc |-> columns.exc, out |-> <<>>, self |-> self]
     ELSE IF self.ids.none \/ self.classes.none \/ self.features.none
     THEN [exc |-> "TypeError", out |-> <<>>, self |-> self]
     ELSE LET zipped == FeatureSet_iter(self).v
              r == IterFrom(zipped, 1, ids, classes, features, columns.v,
                            inverse, emptyIndexOk, <<>>)
          IN [exc |-> r.exc, out |-> r.out, self |-> self]

\* The `features` argument __sub__ passes: other.features, the matrix (or
\* None); iterating it gives its rows.
SubFeaturesArg(other) ==
  IF other.features.none THEN NoneList
  ELSE List([i \in 1..other.features.nrows |-> RowObj])

\* __sub__: [exc, ret, self, other].
FeatureSet_sub(self, other, emptyIndexOk) ==
  LET new_set == self
      f == FeatureSet_filter(new_set, NoneList, NoneList, SubFeaturesArg(other),
                             TRUE, emptyIndexOk)
  IN [exc |-> f.exc, ret |-> IF f.exc = NoExc THEN f.self ELSE Placeholder,
      self |-> self, other |-> other]

\* ------------------------------------------------- the sets of the model
Iota(n) == [i \in 1..n |-> i]
Reverse(s) == [i \in 1..Len(s) |-> s[Len(s) + 1 - i]]

\* ids of up to MaxRows examples, in ascending or descending order.
IdSeqs == UNION {{Iota(n), Reverse(Iota(n))} : n \in 0..MaxRows}

Unset(n) == [i \in 1..n |-> "None"]
\* x, ..., x, y (the labels of the spec's example for n = 3)
LabelsXY(n) == [i \in 1..n |-> IF i = n /\ n > 1 THEN "y" ELSE "x"]
LabelsY(n) == [i \in 1..n |-> "y"]
ClassSeqs(n) == {Unset(n), LabelsXY(n), LabelsY(n)}

RECURSIVE SortNames(_)
SortNames(S) ==
  IF S = {} THEN <<>>
  ELSE LET m == CHOOSE x \in S : \A y \in S : NameNum(x) <= NameNum(y)
       IN <<m>> \o SortNames(S \ {m})

\* A fitted DictVectorizer: feature_names_ sorted, vocabulary_ its inverse.
DictVec(S) ==
  LET names == SortNames(S) IN
  [kind |-> "Dict",
   vocabulary_ |-> {<<names[i], i - 1>> : i \in 1..Len(names)},
   feature_names_ |-> names]

HasherVec == [kind |-> "Hasher", vocabulary_ |-> {}, feature_names_ |-> <<>>]

\* The value of the column tagged t in the row of example id.
Cell(id, t) == 10 * t + id

BuildMat(ids, tags) ==
  Mat(Len(ids), Len(tags),
      [r \in 1..Len(ids) |-> [j \in 1..Len(tags) |-> Cell(ids[r], tags[j])]])

NameTags(names) == [i \in 1..Len(names) |-> NameNum(names[i])]
HashTags(m) == [j \in 1..m |-> Cardinality(Names) + j]

\* A set as a reader leaves it: ids, classes and the rows of features
\* aligned, the columns those of the vectorizer.
DictSet(ids, classes, S) ==
  FS(Arr(ids), Arr(classes), BuildMat(ids, NameTags(SortNames(S))), DictVec(S))
HashSet(ids, classes, m) ==
  FS(Arr(ids), Arr(classes), BuildMat(ids, HashTags(m)), HasherVec)

NameSets == {S \in SUBSET Names : Cardinality(S) <= MaxCols}

\* The first m names.
FirstNames(m) == {n \in Names : NameNum(n) <= m}

\* Every aligned set within the bounds.
Populated ==
  UNION {UNION {{DictSet(ids, c, S) : S \in NameSets}
                \cup {HashSet(ids, c, m) : m \in 1..MaxCols}
                : c \in ClassSeqs(Len(ids))} : ids \in IdSeqs}

\* Sets without a feature matrix, as the constructor returns them.
Featureless ==
  {FeatureSet_init(i, NoneArr, NoneMat, v).self :
     i \in {NoneArr} \cup {Arr(Iota(n)) : n \in 1..MaxRows},
     v \in {NoneVec, HasherVec}}

\* The receivers of the sequences of operations: n examples with the first
\* m names or one hashed column, and two featureless sets.
Receivers ==
  {DictSet(Iota(n), LabelsXY(n), FirstNames(m)) : n \in 0..MaxRows, m \in 1..MaxCols}
  \cup {HashSet(Iota(n), Unset(n), 1) : n \in 1..MaxRows}
  \cup {Placeholder, FeatureSet_init(Arr(Iota(MaxRows)), NoneArr, NoneMat, HasherVec).self}

\* Their other operand: nothing, one hashed column, or the column "f3" with
\* the ids in either order, unlabelled or labelled.
Others ==
  {Placeholder, HashSet(Iota(MaxRows), Unset(MaxRows), 1)}
  \cup {DictSet(ids, c, {"f3"}) :
          ids \in {Iota(MaxRows), Reverse(Iota(MaxRows))},
          c \in {Unset(MaxRows), LabelsXY(MaxRows)}}

\* Arguments of filter and filtered_iter.
IdLists == {NoneList, List(<<1>>)}
ClassLists == {NoneList, List(<<"y">>)}
FeatureLists == {NoneList, List(<<"f1", "zz">>), List(<<"zz">>)}

\* Arguments of the constructor.
InitIds == {NoneArr, Arr(Iota(MaxRows)), Arr(Iota(MaxRows - 1))}
InitClasses == {NoneArr, Arr(LabelsXY(MaxRows))}
InitFeatures ==
  {NoneMat} \cup {BuildMat(Iota(MaxRows), NameTags(SortNames(FirstNames(m)))) :
                    m \in {1, MaxRows}}

\* ---------------------------------------------------------------- state
VARIABLES self, other, last, nops
vars == <<self, other, last, nops>>

NoCall ==
  [op |-> "none", ids |-> NoneList, classes |-> NoneList, features |-> NoneList,
   inverse |-> FALSE, exc |-> NoExc, out |-> <<>>, ret |-> Placeholder,
   pre_self |-> Placeholder, pre_other |-> Placeholder,
   post_self |-> Placeholder, post_other |-> Placeholder]

Init ==
  /\ self \in Receivers
  /\ other \in Others
  /\ last = NoCall
  /\ nops = 0

\* self = FeatureSet(ids, classes, features, feat_vectorizer)
Construct ==
  /\ nops < MaxOps
  /\ \E i \in InitIds, c \in InitClasses, f \in InitFeatures :
       LET v == IF f.none THEN NoneVec
                ELSE DictVec(FirstNames(f.ncols))
           r == FeatureSet_init(i, c, f, v)
       IN /\ self' = IF r.exc = NoExc THEN r.self ELSE self
          /\ last' = [NoCall EXCEPT !.op = "init", !.exc = r.exc, !.ret = r.self,
                        !.pre_self = FS(i, c, f, v), !.pre_other = other,
                        !.post_self = self', !.post_other = other]
  /\ nops' = nops + 1
  /\ UNCHANGED other

\* self = self + other
Add ==
  /\ nops < MaxOps
  /\ LET r == FeatureSet_add(self, other)
     IN /\ self' = IF r.exc = NoExc THEN r.ret ELSE r.self
        /\ other' = r.other
        /\ last' = [NoCall EXCEPT !.op = "add", !.exc = r.exc, !.ret = r.ret,
                      !.pre_self = self, !.pre_other = other,
                      !.post_self = r.self, !.post_other = r.other]
  /\ nops' = nops + 1

\* self = self - other
Sub ==
  /\ nops < MaxOps
  /\ \E emptyIndexOk \in (IF other.features.none THEN {FALSE} ELSE BOOLEAN) :
       LET r == FeatureSet_sub(self, other, emptyIndexOk)
       IN /\ self' = IF r.exc = NoExc THEN r.ret ELSE r.self
          /\ other' = r.other
          /\ last' = [NoCall EXCEPT !.op = "sub", !.exc = r.exc, !.ret = r.ret,
                        !.pre_self = self, !.pre_other = other,
                        !.post_self = r.self, !.post_other = r.other]
  /\ nops' = nops + 1

\* self.filter(ids, classes, features, inverse)
Filter ==
  /\ nops < MaxOps
  /\ \E i \in IdLists, c \in ClassLists, f \in FeatureLists, inv \in BOOLEAN :
     \E emptyIndexOk \in (IF f.none THEN {FALSE} ELSE BOOLEAN) :
       LET r == FeatureSet_filter(self, i, c, f, inv, emptyIndexOk)
       IN /\ self' = r.self
          /\ last' = [NoCall EXCEPT !.op = "filter", !.ids = i, !.classes = c,
                        !.features = f, !.inverse = inv, !.exc = r.exc,
                        !.pre_self = self, !.pre_other = other,
                        !.post_self = r.self, !.post_other = other]
  /\ nops' = nops + 1
  /\ UNCHANGED other

\* list(self.filtered_iter(ids, classes, features, inverse))
FilteredIter ==
  /\ nops < MaxOps
  /\ \E i \in IdLists, c \in ClassLists, f \in FeatureLists, inv \in BOOLEAN :
     \E emptyIndexOk \in (IF f.none THEN {FALSE} ELSE BOOLEAN) :
       LET r == FeatureSet_filtered_iter(self, i, c, f, inv, emptyIndexOk)
       IN /\ self' = r.self
          /\ last' = [NoCall EXCEPT !.op = "filtered_iter", !.ids = i,
                        !.classes = c, !.features = f, !.inverse = inv,
                        !.exc = r.exc, !.out = r.out,
                        !.pre_self = self, !.pre_other = other,
                        !.post_self = r.self, !.post_other = other]
  /\ nops' = nops + 1
  /\ UNCHANGED other

Next == Construct \/ Add \/ Sub \/ Filter \/ FilteredIter

Spec == Init /\ [][Next]_vars

\* Merges alone, over every pair of operands within the bounds.
InitMerge ==
  /\ self \in Populated \cup Featureless
  /\ other \in Populated \cup {Placeholder}
  /\ last = NoCall
  /\ nops = 0

NextMerge == Add

SpecMerge == InitMerge /\ [][NextMerge]_vars

\* ------------------------------------------------------------ properties
\* len(ids) == len(classes) == number of rows of features.
Aligned(s) ==
  /\ ~s.features.none /\ ~s.ids.none /\ ~s.classes.none
  /\ Len(s.ids.v) = s.features.nrows
  /\ Len(s.classes.v) = s.features.nrows

IsDictSet(s) == Aligned(s) /\ s.feat_vectorizer.kind = "Dict"

NoLabels(s) == s.classes.none \/ ~AnyLabel(s.classes)

\* The positions (from 1) of a row that the list E of positions selects.
SelectCols(row, E) == [j \in 1..Len(E) |-> row[E[j]]]

\* The positions i of seq (ascending) with P(seq[i]).
Positions(seq, P(_)) ==
  sorted(SelectSeq([i \in 1..Len(seq) |-> i], LAMBDA i : P(seq[i])))

\* C1: every set that holds a feature matrix has len(ids) == len(classes)
\* == number of feature rows, after construction, filter, merge and
\* subtraction, in any sequence.
C1_AlignedInEveryState == ~self.features.none => Aligned(self)

\* C2: constructing with an N x M matrix defaults absent ids and classes to
\* N unset entries, fails with ShapeMismatch exactly when ids or classes
\* (once populated) do not have length N, and succeeds otherwise.
C2_ConstructionChecksRows ==
  (last.op = "init" /\ ~last.pre_self.features.none) =>
    LET arg == last.pre_self
        N == arg.features.nrows
        nIds == IF arg.ids.none THEN N ELSE Len(arg.ids.v)
        nClasses == IF arg.classes.none THEN N ELSE Len(arg.classes.v)
    IN /\ (last.exc = "ShapeMismatch") <=> (nIds # N \/ nClasses # N)
       /\ (nIds = N /\ nClasses = N) =>
            /\ last.exc = NoExc
            /\ Aligned(last.ret)
            /\ arg.ids.none => last.ret.ids.v = [i \in 1..N |-> 0]
            /\ arg.classes.none => last.ret.classes.v = Unset(N)

\* C3: merging two Dictionary-vectorized sets with disjoint names and
\* identical ids gives k+m columns and a vectorizer that maps A's names to
\* their index in A, B's names to their index in B plus k, and nothing else;
\* each index leads back to its name (k, m >= 1).
C3_MergedVocabulary ==
  (/\ last.op = "add" /\ last.exc = NoExc
   /\ IsDictSet(last.pre_self) /\ IsDictSet(last.pre_other)
   /\ last.pre_self.features.ncols >= 1 /\ last.pre_other.features.ncols >= 1
   /\ FeatureNames(last.pre_self.feat_vectorizer)
        \cap FeatureNames(last.pre_other.feat_vectorizer) = {}
   /\ last.pre_self.ids = last.pre_other.ids) =>
    LET A == last.pre_self
        B == last.pre_other
        k == A.features.ncols
        vec == last.ret.feat_vectorizer
    IN /\ last.ret.features.ncols = k + B.features.ncols
       /\ vec.vocabulary_ =
            A.feat_vectorizer.vocabulary_
            \cup {<<p[1], p[2] + k>> : p \in B.feat_vectorizer.vocabulary_}
       /\ \A p \in vec.vocabulary_ :
            /\ p[2] + 1 <= Len(vec.feature_names_)
            /\ vec.feature_names_[p[2] + 1] = p[1]

\* C4: a successful merge returns the operands' shared ids, and as classes
\* B's labels when A has none, A's when B has none, the common labels when
\* both are labelled.
C4_MergedIdsAndClasses ==
  (/\ last.op = "add" /\ last.exc = NoExc
   /\ Aligned(last.pre_self) /\ Aligned(last.pre_other)) =>
    /\ last.ret.ids = last.pre_self.ids
    /\ last.ret.classes =
         IF NoLabels(last.pre_self) THEN last.pre_other.classes
         ELSE last.pre_self.classes

VariantsDiffer(A, B) == A.feat_vectorizer.kind # B.feat_vectorizer.kind

NamesOverlap(A, B) ==
  /\ A.feat_vectorizer.kind = "Dict" /\ B.feat_vectorizer.kind = "Dict"
  /\ FeatureNames(A.feat_vectorizer) \cap FeatureNames(B.feat_vectorizer) # {}

IdsDiffer(A, B) == A.ids # B.ids

LabelsConflict(A, B) ==
  /\ ~NoLabels(A) /\ ~NoLabels(B)
  /\ A.classes # B.classes

OperandsUnchanged ==
  last.post_self = last.pre_self /\ last.post_other = last.pre_other

\* C5 as stated: a merge fails whenever the variants differ, the ids differ
\* in content or order, Dictionary names overlap or both operands are
\* labelled and disagree somewhere; and no merge changes its operands
\* (stated for operands that each name an example and have a vectorizer).
C5_MergeFailsOnAnyViolation ==
  (/\ last.op = "add"
   /\ ~last.pre_self.ids.none /\ last.pre_self.ids.v # <<>>
   /\ ~last.pre_other.ids.none /\ last.pre_other.ids.v # <<>>
   /\ last.pre_self.feat_vectorizer.kind # "None"
   /\ last.pre_other.feat_vectorizer.kind # "None") =>
    /\ OperandsUnchanged
    /\ (\/ VariantsDiffer(last.pre_self, last.pre_other)
        \/ NamesOverlap(last.pre_self, last.pre_other)
        \/ IdsDiffer(last.pre_self, last.pre_other)
        \/ LabelsConflict(last.pre_self, last.pre_other)) => last.exc # NoExc

\* C5 amended: a merge of two sets that each hold a feature matrix aligned
\* with their ids and classes fails with IncompatibleVectorizer when the
\* variants differ, with DuplicateFeatureName when both are Dictionary sets
\* with a common name, and fails when the ids differ or both are labelled
\* and disagree; no merge, failing or not, changes its operands.
C5_AlignedMergeFailsOnViolation ==
  last.op = "add" =>
    /\ OperandsUnchanged
    /\ (Aligned(last.pre_self) /\ Aligned(last.pre_other)) =>
         /\ VariantsDiffer(last.pre_self, last.pre_other)
              => last.exc = "IncompatibleVectorizer"
         /\ NamesOverlap(last.pre_self, last.pre_other)
              => last.exc = "DuplicateFeatureName"
         /\ IdsDiffer(last.pre_self, last.pre_other) => last.exc # NoExc
         /\ LabelsConflict(last.pre_self, last.pre_other) => last.exc # NoExc

\* A merge of two aligned sets of the same variant and size, with disjoint
\* names and agreeing labels, refused only because the ids are in another
\* order.
C5_Witness ==
  /\ last.op = "add" /\ last.exc = "MisalignedIds"
  /\ Aligned(last.pre_self) /\ Aligned(last.pre_other)
  /\ last.pre_self.features.nrows = last.pre_other.features.nrows
  /\ ~LabelsConflict(last.pre_self, last.pre_other)
  /\ OperandsUnchanged

\* C6: filtered_iter yields exactly the triples the set holds after filter
\* with the same arguments, and leaves the set unchanged (stated for the
\* calls without a name list, on a set of N >= 1 examples and N columns).
C6_FilteredIterMatchesFilter ==
  (/\ last.op = "filtered_iter" /\ Aligned(last.pre_self)
   /\ last.features.none
   /\ last.pre_self.features.nrows >= 1
   /\ last.pre_self.features.nrows = last.pre_self.features.ncols) =>
    /\ last.post_self = last.pre_self
    /\ \A e \in BOOLEAN :
         LET f == FeatureSet_filter(last.pre_self, last.ids, last.classes,
                                    last.features, last.inverse, e)
         IN f.exc = NoExc =>
              /\ last.exc = NoExc
              /\ last.out = FeatureSet_iter(f.self).v

\* C7: A - B has no column named in B's vocabulary, keeps A's other columns
\* in order and every example with its id, class and values, and changes
\* neither operand (A with at least one example).
C7_SubtractionKeepsExamples ==
  (/\ last.op = "sub" /\ IsDictSet(last.pre_self) /\ IsDictSet(last.pre_other)
   /\ last.pre_self.features.nrows >= 1) =>
    LET A == last.pre_self
        B == last.pre_other
        keep == Positions(A.feat_vectorizer.feature_names_,
                          LAMBDA n : n \notin FeatureNames(B.feat_vectorizer))
    IN /\ last.exc = NoExc
       /\ OperandsUnchanged
       /\ last.ret.ids = A.ids
       /\ last.ret.classes = A.classes
       /\ last.ret.features.ncols = Len(keep)
       /\ last.ret.features.rows =
            [r \in 1..A.features.nrows |-> SelectCols(A.features.rows[r], keep)]

\* C8: filter(ids=[x]) on a set containing x removes exactly the rows with
\* id x (inverse: keeps exactly them), cutting ids, classes and feature
\* rows alike and in order, for every N and M (stated for N, M >= 2).
C8_FilterByIdCutsRows ==
  (/\ last.op = "filter" /\ Aligned(last.pre_self)
   /\ last.pre_self.features.nrows >= 2 /\ last.pre_self.features.ncols >= 2
   /\ ~last.ids.none /\ last.classes.none /\ last.features.none
   /\ Range(last.ids.v) \cap Range(last.pre_self.ids.v) # {}) =>
    LET A == last.pre_self
        keep == Positions(A.ids.v,
                          LAMBDA i : (i \in Range(last.ids.v)) = last.inverse)
    IN /\ last.exc = NoExc
       /\ last.post_self.ids.v = SelectCols(A.ids.v, keep)
       /\ last.post_self.classes.v = SelectCols(A.classes.v, keep)
       /\ last.post_self.features.rows = SelectCols(A.features.rows, keep)

\* C9: filter(features=F) keeps exactly the columns of the names of F the
\* vectorizer knows (inverse: exactly the others), in their original order,
\* and ignores unknown names (stated for a list with a known name, on a
\* set of N >= 1 examples and N columns).
C9_FilterByNameCutsColumns ==
  (/\ last.op = "filter" /\ IsDictSet(last.pre_self)
   /\ last.pre_self.features.nrows >= 1
   /\ last.pre_self.features.nrows = last.pre_self.features.ncols
   /\ \E i \in 1..Len(last.features.v) :
        VecContains(last.pre_self.feat_vectorizer, last.features.v[i])
   /\ last.ids.none /\ last.classes.none /\ ~last.features.none) =>
    LET A == last.pre_self
        keep == Positions(A.feat_vectorizer.feature_names_,
                          LAMBDA n : (n \in Range(last.features.v)) = ~last.inverse)
        got == last.post_self.features
    IN /\ last.exc = NoExc
       /\ got.ncols = Len(keep)
       /\ \A r \in 1..got.nrows :
            \E q \in 1..A.features.nrows :
              got.rows[r] = SelectCols(A.features.rows[q], keep)

\* C10: in every state of a set with a Dictionary vectorizer, the column
\* count equals the number of names the vectorizer maps and every mapped
\* index is a column holding the values of that feature (stated for the
\* states a merge has just produced).
C10_VectorizerMatchesColumns ==
  (/\ last.op = "add" /\ last.exc = NoExc
   /\ ~self.features.none /\ self.feat_vectorizer.kind = "Dict") =>
    /\ self.features.ncols = Cardinality(self.feat_vectorizer.vocabulary_)
    /\ \A p \in self.feat_vectorizer.vocabulary_ :
         /\ p[2] < self.features.ncols
         /\ \A r \in 1..self.features.nrows :
              self.features.rows[r][p[2] + 1] \div 10 = NameNum(p[1])

====
